---- MODULE Spec2Model ----
(***************************************************************************)
(* Navigation/state engine of the book reader (src/script.js): the module  *)
(* level state (booksIndex, bookCache, currentBookId, currentChapter), the *)
(* page shown in <main>, the URL fragment, and the asynchronous openBook   *)
(* calls suspended at their content fetch.                                 *)
(*                                                                         *)
(* JavaScript runs every handler to completion; the only suspension points *)
(* are the two awaits on fetchJson (index load, book content load).  Each  *)
(* action below is therefore one event handler, or the continuation of an  *)
(* async function after its await, run to completion.                      *)
(***************************************************************************)
EXTENDS Integers, Sequences, FiniteSets, Bags, TLC

(***************************************************************************)
(* JavaScript values.  Numbers, strings, null, undefined and NaN are kept  *)
(* apart by tagged records; a string is a sequence of one-character        *)
(* strings.                                                                *)
(***************************************************************************)
Null == [null |-> TRUE]
Undefined == [undefined |-> TRUE]
NaN == [nan |-> TRUE]
Num(n) == [num |-> n]
Str(s) == [str |-> s]

IsNum(v) == DOMAIN v = {"num"}
IsStr(v) == DOMAIN v = {"str"}

Digits == <<"0", "1", "2", "3", "4", "5", "6", "7", "8", "9">>
IsDigit(c) == \E i \in 1..Len(Digits) : Digits[i] = c
DigitVal(c) == (CHOOSE i \in 1..Len(Digits) : Digits[i] = c) - 1

\* decimal text of a natural number, as template literals and property keys print it
RECURSIVE NumToChars(_)
NumToChars(n) ==
  IF n < Len(Digits) THEN <<Digits[n + 1]>>
  ELSE NumToChars(n \div Len(Digits)) \o <<Digits[(n % Len(Digits)) + 1]>>

\* value of a string of decimal digits
RECURSIVE DigitsToNum(_)
DigitsToNum(s) ==
  IF s = <<>> THEN 0
  ELSE DigitsToNum(SubSeq(s, 1, Len(s) - 1)) * Len(Digits) + DigitVal(s[Len(s)])

\* String(v) for the values that reach a template literal or a property key
JsString(v) ==
  IF IsNum(v) THEN NumToChars(v.num)
  ELSE IF IsStr(v) THEN v.str
  ELSE IF v = Null THEN <<"n", "u", "l", "l">>
  ELSE IF v = NaN THEN <<"N", "a", "N">>
  ELSE <<"u", "n", "d", "e", "f", "i", "n", "e", "d">>

\* Number(v): a number is itself, "" is 0, a string of digits is its value,
\* any other string of the fragment alphabet (letters, digits) is NaN
Number(v) ==
  IF IsNum(v) THEN v
  ELSE IF v = Null THEN Num(0)
  ELSE IF IsStr(v) THEN
    IF \A i \in 1..Len(v.str) : IsDigit(v.str[i]) THEN Num(DigitsToNum(v.str)) ELSE NaN
  ELSE NaN

\* JavaScript truthiness of the values tested by `if (x)`
Truthy(v) ==
  IF IsNum(v) THEN v.num # 0
  ELSE IF IsStr(v) THEN v.str # <<>>
  ELSE FALSE

\* s.split(sep) for a one-character separator
RECURSIVE Split(_, _)
Split(s, sep) ==
  IF \A i \in 1..Len(s) : s[i] # sep THEN <<s>>
  ELSE LET k == CHOOSE i \in 1..Len(s) : s[i] = sep /\ \A j \in 1..(i - 1) : s[j] # sep
       IN <<SubSeq(s, 1, k - 1)>> \o Split(SubSeq(s, k + 1, Len(s)), sep)

\* parts.join("&")
RECURSIVE Join(_, _)
Join(parts, sep) ==
  IF parts = <<>> THEN <<>>
  ELSE IF Len(parts) = 1 THEN parts[1]
  ELSE parts[1] \o <<sep>> \o Join(Tail(parts), sep)

\* decodeURIComponent(v): the argument is converted to a string (undefined
\* becomes "undefined"); the fragment alphabet has no escape sequences
decodeURIComponent(v) == Str(JsString(v))

KeyBook == <<"b", "o", "o", "k">>
KeyChapter == <<"c", "h", "a", "p", "t", "e", "r">>

\* parseHash(): the object built from the fragment `hash` (without '#'), as
\* a function from its keys to string values; later pairs win
RECURSIVE parsePairs(_, _)
parsePairs(pairs, result) ==
  IF pairs = <<>> THEN result
  ELSE LET p == pairs[1]
           k == p[1]
           v == IF Len(p) >= 2 THEN Str(p[2]) ELSE Undefined
           r == IF k # <<>>
                THEN [x \in (DOMAIN result) \cup {k} |->
                        IF x = k THEN decodeURIComponent(v) ELSE result[x]]
                ELSE result
       IN parsePairs(Tail(pairs), r)

parseHash(hash) ==
  IF hash = <<>> THEN <<>>
  ELSE LET parts == Split(hash, "&")
           pairs == [i \in 1..Len(parts) |-> Split(parts[i], "=")]
       IN parsePairs(pairs, <<>>)

\* property read h.key: undefined when the key is absent
Prop(h, key) == IF key \in DOMAIN h THEN h[key] ELSE Undefined

(***************************************************************************)
(* The served files: books-index.json and the content file of each entry.  *)
(***************************************************************************)
IndexFile ==
  << [id |-> 1, name |-> "Genesis", file |-> "g.json"],
     [id |-> 2, name |-> "Exodus", file |-> "e.json"],
     [id |-> 0, name |-> "Preface", file |-> "p.json"] >>

Files ==
  [f \in {"g.json", "e.json", "p.json"} |->
     IF f = "g.json" THEN
       [id |-> 1, name |-> "Genesis",
        chapters |-> << [number |-> 1, verses |-> <<"In the beginning">>],
                        [number |-> 2, verses |-> <<"Thus the heavens">>] >>]
     ELSE IF f = "e.json" THEN
       [id |-> 2, name |-> "Exodus",
        chapters |-> << [number |-> 3, verses |-> <<"Now Moses kept the flock">>],
                        [number |-> 1, verses |-> <<"These are the names">>] >>]
     ELSE
       [id |-> 0, name |-> "Preface",
        chapters |-> << [number |-> 0, verses |-> <<"To the reader">>] >>]]

\* fragments the page may be opened with (location.hash without '#')
InitialFragments ==
  { <<>>,
    KeyBook \o <<"=", "1">>,
    KeyBook \o <<"=", "1", "&">> \o KeyChapter \o <<"=", "2">>,
    KeyBook \o <<"=", "2", "&">> \o KeyChapter \o <<"=", "1">>,
    KeyBook \o <<"=", "1", "&">> \o KeyChapter \o <<"=", "9">>,
    KeyBook \o <<"=", "7">>,
    KeyBook \o <<"=", "x">>,
    KeyBook,
    KeyChapter \o <<"=", "1">>,
    <<"x", "=", "1">> }

\* most content fetches issued in one behaviour
MaxFetches == 3

VARIABLES
  booksIndex,      \* let booksIndex
  bookCache,       \* let bookCache: property key -> book content
  currentBookId,   \* let currentBookId
  currentChapter,  \* let currentChapter
  title,           \* titleEl.textContent
  backHidden,      \* backBtn.classList contains "hidden"
  mainClass,       \* main.className without the "page " prefix
  mainView,        \* what main.innerHTML holds
  hash,            \* location.hash without '#'
  indexState,      \* loadIndex: "loading", "loaded" or "failed"
  pending,         \* bag of openBook calls suspended at `await fetchJson(meta.file)`
  nFetch,          \* content fetches issued so far
  alerts,          \* alert() dialogs shown so far
  fetched,         \* ids of the books whose content fetch has succeeded
  booksGrid,       \* the cards of the books grid (booksGrid.innerHTML)
  historyLength    \* history.length: entries of the session history

vars == << booksIndex, bookCache, currentBookId, currentChapter, title, backHidden,
           mainClass, mainView, hash, indexState, pending, nFetch, alerts, fetched,
           booksGrid, historyLength >>

\* the program state as one record, so that a handler is the composition of
\* the functions it calls
State ==
  [ booksIndex |-> booksIndex, bookCache |-> bookCache,
    currentBookId |-> currentBookId, currentChapter |-> currentChapter,
    title |-> title, backHidden |-> backHidden, mainClass |-> mainClass,
    mainView |-> mainView, hash |-> hash, indexState |-> indexState,
    pending |-> pending, nFetch |-> nFetch, alerts |-> alerts, fetched |-> fetched,
    booksGrid |-> booksGrid, historyLength |-> historyLength ]

Becomes(s) ==
  /\ booksIndex' = s.booksIndex
  /\ bookCache' = s.bookCache
  /\ currentBookId' = s.currentBookId
  /\ currentChapter' = s.currentChapter
  /\ title' = s.title
  /\ backHidden' = s.backHidden
  /\ mainClass' = s.mainClass
  /\ mainView' = s.mainView
  /\ hash' = s.hash
  /\ indexState' = s.indexState
  /\ pending' = s.pending
  /\ nFetch' = s.nFetch
  /\ alerts' = s.alerts
  /\ fetched' = s.fetched
  /\ booksGrid' = s.booksGrid
  /\ historyLength' = s.historyLength

(***************************************************************************)
(* The functions of script.js, as functions from state to state.           *)
(***************************************************************************)
setTitle(s, txt) == [s EXCEPT !.title = txt]

\* showBooks that forgets to reset currentBookId
showBooks_keepsBook(s) ==
  [setTitle(s, [text |-> "Books"]) EXCEPT
     !.currentChapter = Null,
     !.backHidden = TRUE,
     !.mainClass = "books-page"]

showBooks(s) ==
  [setTitle(s, [text |-> "Books"]) EXCEPT
     !.currentBookId = Null,
     !.currentChapter = Null,
     !.backHidden = TRUE,
     !.mainClass = "books-page"]

\* updateHash written with history.pushState: every write adds an entry
updateHash_pushState(s, book, chapter) ==
  LET p1 == IF Truthy(book) THEN <<KeyBook \o <<"=">> \o JsString(book)>> ELSE <<>>
      p2 == IF Truthy(chapter) THEN <<KeyChapter \o <<"=">> \o JsString(chapter)>> ELSE <<>>
      h == Join(p1 \o p2, "&")
  IN [s EXCEPT !.hash = h, !.historyLength = @ + 1]

\* history.replaceState(null, "", h ? `#${h}` : " "): the entry is replaced,
\* and the URL " " resolves to the document URL without a fragment
updateHash(s, book, chapter) ==
  LET p1 == IF Truthy(book) THEN <<KeyBook \o <<"=">> \o JsString(book)>> ELSE <<>>
      p2 == IF Truthy(chapter) THEN <<KeyChapter \o <<"=">> \o JsString(chapter)>> ELSE <<>>
      h == Join(p1 \o p2, "&")
  IN [s EXCEPT !.hash = h]

renderChaptersView(s, book) ==
  [setTitle(s, [text |-> book.name]) EXCEPT
     !.mainClass = "chapters-page",
     !.mainView = [kind |-> "chapters", book |-> book.id]]

openChapter(s, bookId, chapterNumber) ==
  LET key == JsString(bookId)
  IN IF key \notin DOMAIN s.bookCache THEN s
     ELSE
       LET book == s.bookCache[key]
           n == Number(chapterNumber)
           s1 == [setTitle(s, [text |-> book.name, chapter |-> n]) EXCEPT
                    !.currentChapter = n,
                    !.mainClass = "verses-page"]
           found == \E i \in 1..Len(book.chapters) : Num(book.chapters[i].number) = n
       IN IF ~found
          THEN [s1 EXCEPT !.mainView = [kind |-> "notfound"]]
          ELSE updateHash([s1 EXCEPT !.mainView =
                             [kind |-> "verses", book |-> book.id, chapter |-> n.num]],
                          bookId, chapterNumber)

\* options objects passed to openBook
NoOptions == [chapter |-> Undefined, showChaptersOnly |-> FALSE]
ChaptersOnly == [chapter |-> Undefined, showChaptersOnly |-> TRUE]
DeepLinkOptions(h) == [chapter |-> Prop(h, KeyChapter), showChaptersOnly |-> FALSE]

\* openBook, lines 105-117: the book is at hand
openBookRender(s, book, options) ==
  LET s1 == renderChaptersView(s, book)
  IN IF Truthy(options.chapter)
       THEN openChapter(s1, Num(book.id), Number(options.chapter))
     ELSE IF options.showChaptersOnly
       THEN s1
     ELSE openChapter(s1, Num(book.id),
                      IF book.chapters # <<>> THEN Num(book.chapters[1].number) ELSE Num(1))

\* a catch block that reports the error but does not return to the library
openBookCatch_noShowBooks(s) ==
  [setTitle(s, [text |-> "Books"]) EXCEPT !.alerts = @ + 1]

\* openBook, lines 118-122: the catch block
openBookCatch(s) ==
  showBooks([setTitle(s, [text |-> "Books"]) EXCEPT !.alerts = @ + 1])

\* booksIndex.find(b => b.id === id)
findMeta(index, id) ==
  LET hits == {i \in 1..Len(index) : Num(index[i].id) = id}
  IN IF hits = {} THEN Undefined
     ELSE index[CHOOSE i \in hits : \A j \in hits : i <= j]

\* openBook up to its first suspension: either it completes (cache hit, or
\* no index entry) or it issues the content fetch and waits
openBook(s, bookId, options) ==
  LET id == Number(bookId)
      s1 == [setTitle(s, [text |-> "Loading..."]) EXCEPT
               !.currentBookId = id,
               !.backHidden = FALSE]
      key == JsString(id)
      meta == findMeta(s1.booksIndex, id)
  IN IF key \in DOMAIN s1.bookCache
       THEN openBookRender(s1, s1.bookCache[key], options)
     ELSE IF meta = Undefined
       THEN openBookCatch(s1)
     ELSE [s1 EXCEPT
             !.pending = @ (+) SetToBag({[file |-> meta.file, options |-> options]}),
             !.nFetch = @ + 1]

\* openBook resumed after `await fetchJson(meta.file)` returned `book`
openBookResume(s, p, book) ==
  LET key == JsString(s.currentBookId)
      s1 == [s EXCEPT
               !.pending = @ (-) SetToBag({p}),
               !.bookCache = [k \in (DOMAIN @) \cup {key} |-> IF k = key THEN book ELSE @[k]],
               !.fetched = @ \cup {book.id}]
  IN openBookRender(s1, book, p.options)

\* openBook resumed by fetchJson throwing
openBookReject(s, p) ==
  openBookCatch([s EXCEPT !.pending = @ (-) SetToBag({p})])

handleDeepLink(s) ==
  LET h == parseHash(s.hash)
  IN IF Truthy(Prop(h, KeyBook))
       THEN openBook(s, Prop(h, KeyBook), DeepLinkOptions(h))
       ELSE s

\* the click handler of the back button
backBtnClick(s) ==
  IF s.currentChapter # Null
    THEN openBook(s, s.currentBookId, ChaptersOnly)
    ELSE showBooks(s)

\* the characters of the names and verses of the served files
Text(t) ==
  IF t = "Genesis" THEN
      <<"G", "e", "n", "e", "s", "i", "s">>
  ELSE IF t = "Exodus" THEN
      <<"E", "x", "o", "d", "u", "s">>
  ELSE IF t = "Preface" THEN
      <<"P", "r", "e", "f", "a", "c", "e">>
  ELSE IF t = "In the beginning" THEN
      <<"I", "n", " ", "t", "h", "e", " ", "b", "e", "g", "i", "n", "n", "i",
         "n", "g">>
  ELSE IF t = "Thus the heavens" THEN
      <<"T", "h", "u", "s", " ", "t", "h", "e", " ", "h", "e", "a", "v", "e",
         "n", "s">>
  ELSE IF t = "Now Moses kept the flock" THEN
      <<"N", "o", "w", " ", "M", "o", "s", "e", "s", " ", "k", "e", "p", "t",
         " ", "t", "h", "e", " ", "f", "l", "o", "c", "k">>
  ELSE IF t = "These are the names" THEN
      <<"T", "h", "e", "s", "e", " ", "a", "r", "e", " ", "t", "h", "e", " ",
         "n", "a", "m", "e", "s">>
  ELSE IF t = "To the reader" THEN
      <<"T", "o", " ", "t", "h", "e", " ", "r", "e", "a", "d", "e", "r">>
  ELSE <<>>

UpperCase ==
  <<"A", "B", "C", "D", "E", "F", "G", "H", "I", "J", "K", "L", "M", "N",
    "O", "P", "Q", "R", "S", "T", "U", "V", "W", "X", "Y", "Z">>
LowerCase ==
  <<"a", "b", "c", "d", "e", "f", "g", "h", "i", "j", "k", "l", "m", "n",
    "o", "p", "q", "r", "s", "t", "u", "v", "w", "x", "y", "z">>

\* s.toLowerCase()
toLowerCase(s) ==
  [i \in 1..Len(s) |->
     IF \E j \in 1..Len(UpperCase) : UpperCase[j] = s[i]
       THEN LowerCase[CHOOSE j \in 1..Len(UpperCase) : UpperCase[j] = s[i]]
       ELSE s[i]]

\* s.trim(): leading and trailing blanks removed
RECURSIVE trim(_)
trim(s) ==
  IF s = <<>> THEN s
  ELSE IF Head(s) = " " THEN trim(Tail(s))
  ELSE IF s[Len(s)] = " " THEN trim(SubSeq(s, 1, Len(s) - 1))
  ELSE s

\* s.includes(q)
includes(s, q) ==
  \E i \in 0..(Len(s) - Len(q)) : SubSeq(s, i + 1, i + Len(q)) = q

\* list.filter(keep), keep given as the set of kept positions
RECURSIVE filter(_, _)
filter(list, keep) ==
  IF list = <<>> THEN <<>>
  ELSE LET rest == filter(SubSeq(list, 1, Len(list) - 1), keep)
       IN IF Len(list) \in keep THEN Append(rest, list[Len(list)]) ELSE rest

\* texts typed into the search box
SearchInputs ==
  { <<>>,
    <<" ">>,
    <<"G", "e", "n">>,
    <<"B", "e", "g", "i", "n", "n", "i", "n", "g", " ">> }

\* the names and verses of the served files
Texts ==
  {Files[f].name : f \in DOMAIN Files}
    \cup UNION {UNION {{Files[f].chapters[c].verses[v] :
                          v \in 1..Len(Files[f].chapters[c].verses)} :
                       c \in 1..Len(Files[f].chapters)} : f \in DOMAIN Files}

\* text.toLowerCase().includes(q) with q = value.trim().toLowerCase(), for
\* every text of the files and every typed value (evaluated once)
lowerIncludes ==
  [t \in Texts, value \in SearchInputs |->
     includes(toLowerCase(Text(t)), toLowerCase(trim(value)))]

\* cached.chapters.some(ch => ch.verses.some(v => v.toLowerCase().includes(q)))
someVerseIncludes(book, value) ==
  \E c \in 1..Len(book.chapters) :
    \E v \in 1..Len(book.chapters[c].verses) :
      lowerIncludes[book.chapters[c].verses[v], value]

renderBooksGrid(s, list) == [s EXCEPT !.booksGrid = list]

\* the input handler of the search box, for the typed text `value`
searchInput(s, value) ==
  LET q == toLowerCase(trim(value))
      matches(b) ==
        \/ lowerIncludes[b.name, value]
        \/ LET key == JsString(Num(b.id))
           IN key \in DOMAIN s.bookCache /\ someVerseIncludes(s.bookCache[key], value)
  IN IF q = <<>>
       THEN renderBooksGrid(s, s.booksIndex)
       ELSE renderBooksGrid(s, filter(s.booksIndex,
              {i \in 1..Len(s.booksIndex) : matches(s.booksIndex[i])}))

\* does openBook(bookId) issue a content fetch in state s
WouldFetch(s, bookId) ==
  /\ JsString(Number(bookId)) \notin DOMAIN s.bookCache
  /\ findMeta(s.booksIndex, Number(bookId)) # Undefined

(***************************************************************************)
(* Initial state: the script has run to the first await of loadIndex.      *)
(* The title, the class of <main> and the visibility of the back button    *)
(* come from the page markup; the back button may or may not start hidden. *)
(***************************************************************************)
Init ==
  /\ booksIndex = <<>>
  /\ bookCache = <<>>
  /\ currentBookId = Null
  /\ currentChapter = Null
  /\ title = [text |-> "Books"]
  /\ backHidden \in BOOLEAN
  /\ mainClass = "books-page"
  /\ mainView = [kind |-> "grid"]
  /\ hash \in InitialFragments
  /\ indexState = "loading"
  /\ pending = EmptyBag
  /\ nFetch = 0
  /\ alerts = 0
  /\ fetched = {}
  /\ booksGrid = <<>>
  /\ historyLength = 1

\* the index fetch succeeds: loadIndex stores and renders the index and
\* calls handleDeepLink without awaiting it, then loadInitial's continuation
\* runs showBooks before any other event is dispatched
IndexLoaded ==
  /\ indexState = "loading"
  /\ Becomes(showBooks(handleDeepLink(renderBooksGrid(
       [State EXCEPT !.booksIndex = IndexFile, !.indexState = "loaded"], IndexFile))))

\* the index fetch fails: loadIndex shows the error in the grid, then showBooks
IndexFailed ==
  /\ indexState = "loading"
  /\ Becomes(showBooks([State EXCEPT
       !.indexState = "failed",
       !.booksGrid = <<[error |-> "Error loading index"]>>]))

\* click on a book card of the grid or on an item of the drawer list
TapBook(i) ==
  /\ i \in 1..Len(booksIndex)
  /\ WouldFetch(State, Num(booksIndex[i].id)) => nFetch < MaxFetches
  /\ Becomes(openBook(State, Num(booksIndex[i].id), NoOptions))

\* click on the back button
BackClick ==
  /\ ~backHidden
  /\ (currentChapter # Null /\ WouldFetch(State, currentBookId)) => nFetch < MaxFetches
  /\ Becomes(backBtnClick(State))

\* click on a chapter button of the chapter list rendered in <main>; the
\* buttons exist from renderChaptersView until main.innerHTML is replaced,
\* and are taken to be reachable while the chapters page is the shown page
ChapterClick(n) ==
  /\ mainClass = "chapters-page"
  /\ mainView.kind = "chapters"
  /\ \E f \in DOMAIN Files :
       /\ Files[f].id = mainView.book
       /\ \E i \in 1..Len(Files[f].chapters) : Files[f].chapters[i].number = n
  /\ Becomes(openChapter(State, Num(mainView.book), Num(n)))

\* text typed into the search box
SearchInput(value) ==
  /\ value \in SearchInputs
  /\ Becomes(searchInput(State, value))

\* a content fetch completes with the file's JSON
FetchResolved(p) ==
  /\ p \in BagToSet(pending)
  /\ Becomes(openBookResume(State, p, Files[p.file]))

\* a content fetch fails (network error, bad status, or invalid JSON)
FetchRejected(p) ==
  /\ p \in BagToSet(pending)
  /\ Becomes(openBookReject(State, p))

\* the chapter numbers that occur in the served files
ChapterNumbers ==
  UNION {{Files[f].chapters[i].number : i \in 1..Len(Files[f].chapters)} : f \in DOMAIN Files}

Next ==
  \/ IndexLoaded
  \/ IndexFailed
  \/ \E i \in 1..Len(IndexFile) : TapBook(i)
  \/ BackClick
  \/ \E n \in ChapterNumbers : ChapterClick(n)
  \/ \E value \in SearchInputs : SearchInput(value)
  \/ \E p \in BagToSet(pending) : FetchResolved(p)
  \/ \E p \in BagToSet(pending) : FetchRejected(p)

Spec == Init /\ [][Next]_vars

(***************************************************************************)
(* Navigation states, as the globals and the page class show them.         *)
(***************************************************************************)
InLibrary ==
  mainClass = "books-page" /\ currentBookId = Null /\ currentChapter = Null

InChapterList(b) ==
  /\ mainClass = "chapters-page"
  /\ mainView = [kind |-> "chapters", book |-> b]
  /\ currentBookId = Num(b)
  /\ currentChapter = Null

InVerseList(b, n) ==
  /\ mainClass = "verses-page"
  /\ mainView = [kind |-> "verses", book |-> b, chapter |-> n]
  /\ currentBookId = Num(b)
  /\ currentChapter = Num(n)

BookIds == {IndexFile[i].id : i \in 1..Len(IndexFile)}

HasChapter(book, n) == \E i \in 1..Len(book.chapters) : Num(book.chapters[i].number) = n

\* number of content fetches in flight for file f
InFlight(f) ==
  BagCardinality([p \in {q \in BagToSet(pending) : q.file = f} |-> pending[p]])

\* C1: the page starts with a fragment naming book b of the index (and
\* possibly a chapter); when the content fetch issued for it at startup
\* succeeds, nothing else having happened, the book is current and cached
\* under its id, and the view is the verse list of the linked chapter when
\* b has that chapter, a view of book b otherwise.
C1_DeepLinkSettles ==
  [][ \A p \in BagToSet(pending) :
        LET h == parseHash(hash)
            b == Number(Prop(h, KeyBook))
            c == Prop(h, KeyChapter)
            meta == findMeta(IndexFile, b)
        IN ( /\ indexState = "loaded"
             /\ nFetch = 1
             /\ pending = SetToBag({p})
             /\ Truthy(Prop(h, KeyBook))
             /\ meta # Undefined
             /\ p = [file |-> meta.file, options |-> DeepLinkOptions(h)]
             /\ FetchResolved(p) )
           => /\ currentBookId' = b
              /\ JsString(b) \in DOMAIN bookCache'
              /\ bookCache'[JsString(b)] = Files[meta.file]
              /\ mainClass' \in {"chapters-page", "verses-page"}
              /\ mainView'.book = b.num
              /\ (Truthy(c) /\ HasChapter(Files[meta.file], Number(c)))
                   => InVerseList(b.num, Number(c).num)'
    ]_vars

\* C2: a click on the back button in VerseList(b,n), b cached, leads to
\* ChapterList(b): chapter list of b shown, currentBookId = b, currentChapter
\* cleared.
C2_BackFromVerseList ==
  [][ \A b \in BookIds, n \in ChapterNumbers :
        ( /\ InVerseList(b, n)
          /\ JsString(Num(b)) \in DOMAIN bookCache
          /\ BackClick )
        => InChapterList(b)'
    ]_vars

\* C3: whenever the chapter list of b is shown with b the current book and
\* the back button visible, however that state was reached (in particular
\* by a back() from VerseList(b,n)), a click on the back button yields
\* Library.
C3_BackFromChapterList ==
  \A b \in BookIds :
    ( /\ mainClass = "chapters-page"
      /\ mainView = [kind |-> "chapters", book |-> b]
      /\ currentBookId = Num(b)
      /\ ~backHidden )
    => LET s == backBtnClick(State)
       IN /\ s.mainClass = "books-page"
          /\ s.currentBookId = Null
          /\ s.currentChapter = Null

\* the canonical fragment of the navigation state: empty for Library,
\* book=<id> for ChapterList(id), book=<id>&chapter=<n> for VerseList(id,n)
CanonicalFragment ==
  IF mainClass = "books-page" THEN <<>>
  ELSE IF mainClass = "chapters-page"
    THEN KeyBook \o <<"=">> \o JsString(currentBookId)
  ELSE KeyBook \o <<"=">> \o JsString(currentBookId)
         \o <<"&">> \o KeyChapter \o <<"=">> \o JsString(currentChapter)

\* the globals and the page agree on one navigation state
WellFormedNav ==
  \/ InLibrary
  \/ /\ mainClass = "chapters-page"
     /\ mainView.kind = "chapters"
     /\ currentBookId = Num(mainView.book)
  \/ /\ mainClass = "verses-page"
     /\ mainView.kind = "verses"
     /\ currentBookId = Num(mainView.book)
     /\ currentChapter = Num(mainView.chapter)

\* C4: a completed transition (no fetch left pending) that changes the
\* navigation state, taken from a state whose URL fragment is the canonical
\* fragment of that state, ends in a state whose URL fragment is the
\* canonical fragment of the new state.
C4_UrlAgreesWithState ==
  [][ ( /\ WellFormedNav
        /\ hash = CanonicalFragment
        /\ <<mainClass, currentBookId, currentChapter>>'
             # <<mainClass, currentBookId, currentChapter>>
        /\ pending' = EmptyBag
        /\ WellFormedNav' )
      => hash' = CanonicalFragment'
    ]_vars

\* C5: while a content fetch for a book is in flight, no step issues another
\* fetch for the same book.
C5_NoDuplicateFetch ==
  [][ \A f \in DOMAIN Files : InFlight(f) >= 1 => InFlight(f)' <= InFlight(f) ]_vars

\* C6: when the fetch of book x succeeds after the user has opened another
\* book y, x's content is stored under x and the screen, the title,
\* currentBookId and currentChapter are unchanged.
C6_StaleResponseGuard ==
  [][ \A p \in BagToSet(pending) :
        ( /\ IsNum(currentBookId)
          /\ currentBookId # Num(Files[p.file].id)
          /\ FetchResolved(p) )
        => /\ JsString(Num(Files[p.file].id)) \in DOMAIN bookCache'
           /\ bookCache'[JsString(Num(Files[p.file].id))] = Files[p.file]
           /\ UNCHANGED <<mainClass, mainView, title, currentBookId, currentChapter>>
    ]_vars

\* C7: a key of bookCache is never removed and its value never replaced by
\* different content.
C7_CacheAppendOnly ==
  [][ \A k \in DOMAIN bookCache :
        k \in DOMAIN bookCache' /\ bookCache'[k] = bookCache[k] ]_vars

\* C8: once the content fetch of a book has succeeded, no later step issues
\* a fetch for that book.
C8_CacheHitNoRefetch ==
  [][ \A f \in DOMAIN Files :
        Files[f].id \in fetched => InFlight(f)' <= InFlight(f) ]_vars

\* C9: whenever currentChapter is set, currentBookId is set and bookCache
\* holds that book.
C9_ChapterImpliesCachedBook ==
  currentChapter # Null =>
    /\ currentBookId # Null
    /\ JsString(currentBookId) \in DOMAIN bookCache

BookFragment(b) == KeyBook \o <<"=">> \o JsString(Num(b))

\* C11: when the content of book b arrives for an openBook call that asks
\* for a chapter number b does not have, b being the current book, the
\* result is ChapterList(b) (chapter list shown, currentBookId = b,
\* currentChapter = null) and the URL fragment is book=<b>.
C11_ChapterNotFoundFallback ==
  [][ \A p \in BagToSet(pending) :
        LET book == Files[p.file]
        IN ( /\ Truthy(p.options.chapter)
             /\ ~HasChapter(book, Number(p.options.chapter))
             /\ currentBookId = Num(book.id)
             /\ FetchResolved(p) )
           => /\ InChapterList(book.id)'
              /\ hash' = BookFragment(book.id)
    ]_vars


\* C12: an openBook that fails, by its content fetch failing while no other
\* fetch is pending or by a deep link to an id absent from the index, shows
\* exactly one alert, ends in Library and leaves bookCache as it was.
C12_FailedLoadRevertsToLibrary ==
  [][ /\ \A p \in BagToSet(pending) :
           (pending = SetToBag({p}) /\ FetchRejected(p))
           => /\ alerts' = alerts + 1
              /\ InLibrary'
              /\ bookCache' = bookCache
      /\ LET h == parseHash(hash)
         IN ( /\ IndexLoaded
              /\ Truthy(Prop(h, KeyBook))
              /\ findMeta(IndexFile, Number(Prop(h, KeyBook))) = Undefined )
            => /\ alerts' = alerts + 1
               /\ InLibrary'
               /\ bookCache' = bookCache
               /\ pending' = EmptyBag
    ]_vars

\* C12 witness: the library after the only content fetch issued so far has
\* failed, with one alert shown and nothing cached
C12_Witness ==
  /\ indexState = "loaded"
  /\ nFetch = 1
  /\ pending = EmptyBag
  /\ alerts = 1
  /\ fetched = {}
  /\ bookCache = <<>>
  /\ InLibrary


\* the fragment book=<b>&chapter=<n>
ChapterFragment(b, n) ==
  BookFragment(b) \o <<"&">> \o KeyChapter \o <<"=">> \o JsString(Num(n))

\* C13: when the content of book id arrives for an openBook(id) issued from
\* the library without options, id still being the current book and the
\* content having a chapter, the result is VerseList(id, c) with c the
\* number of the first chapter in document order, and the URL fragment is
\* book=<id>&chapter=<c>.
C13_DefaultOpensFirstChapter ==
  [][ \A p \in BagToSet(pending) :
        LET book == Files[p.file]
        IN ( /\ mainClass = "books-page"
             /\ pending = SetToBag({p})
             /\ p.options = NoOptions
             /\ currentBookId = Num(book.id)
             /\ book.chapters # <<>>
             /\ FetchResolved(p) )
           => /\ InVerseList(book.id, book.chapters[1].number)'
              /\ hash' = ChapterFragment(book.id, book.chapters[1].number)
    ]_vars


\* what a decoded fragment gives for a key: its number, or null for nothing
Decoded(h, key) == IF key \in DOMAIN h THEN Number(h[key]) ELSE Null

\* C14: in every reachable state in which the globals and the page agree on
\* a navigation state (Library, ChapterList(id), VerseList(id,n)), the
\* fragment updateHash
\* writes for the state's book id and chapter number decodes with parseHash
\* to exactly that id and that number, and to nothing for an absent one.
C14_HashRoundTrip ==
  WellFormedNav
  => LET h == parseHash(updateHash(State, currentBookId, currentChapter).hash)
     IN /\ Decoded(h, KeyBook) = currentBookId
        /\ Decoded(h, KeyChapter) = currentChapter


\* a non-empty string of decimal digits
IsNumeral(s) == s # <<>> /\ \A i \in 1..Len(s) : IsDigit(s[i])

\* the fragments of the documented format: empty, book=<id>, or
\* book=<id>&chapter=<number>
DocumentedFragment(f) ==
  \/ f = <<>>
  \/ LET parts == Split(f, "&")
         pair(i) == Split(parts[i], "=")
     IN /\ Len(parts) \in {1, 2}
        /\ Len(pair(1)) = 2 /\ pair(1)[1] = KeyBook /\ IsNumeral(pair(1)[2])
        /\ Len(parts) = 2 =>
             (Len(pair(2)) = 2 /\ pair(2)[1] = KeyChapter /\ IsNumeral(pair(2)[2]))

\* C15: startup with a malformed fragment (a pair without '=', a book id
\* that is not a number, unknown keys only) decodes to no book id, shows no
\* alert, issues no content fetch and ends in Library.
C15_MalformedLinkIsSilent ==
  [][ (IndexLoaded /\ ~DocumentedFragment(hash))
      => /\ ~Truthy(Prop(parseHash(hash), KeyBook))
         /\ alerts' = alerts
         /\ nFetch' = nFetch
         /\ InLibrary'
    ]_vars


\* the list the search is documented to show for `value`: the summaries, in
\* index order, whose name contains the query or whose own content is cached
\* under their id and has a verse containing the query, case-insensitively;
\* the whole index for an empty or blank query
DocumentedFilter(value) ==
  LET q == toLowerCase(trim(value))
      own(b) == Files[b.file]
      matches(b) ==
        \/ includes(toLowerCase(Text(b.name)), q)
        \/ /\ JsString(Num(b.id)) \in DOMAIN bookCache
           /\ bookCache[JsString(Num(b.id))] = own(b)
           /\ \E c \in 1..Len(own(b).chapters) :
                \E v \in 1..Len(own(b).chapters[c].verses) :
                  includes(toLowerCase(Text(own(b).chapters[c].verses[v])), q)
  IN IF q = <<>> THEN booksIndex
     ELSE filter(booksIndex, {i \in 1..Len(booksIndex) : matches(booksIndex[i])})

\* C16: in every reachable state, for every typed text, the grid the search
\* handler renders is the documented filter of the index.
C16_SearchShowsDocumentedFilter ==
  \A value \in SearchInputs :
    searchInput(State, value).booksGrid = DocumentedFilter(value)


\* C17: no step of the program changes the length of the session history:
\* every URL write replaces the current entry.
C17_ReplaceNeverPush ==
  [][historyLength' = historyLength]_vars

\* C17 witness: updateHash has written a fragment the page did not start
\* with, and the history still has its one entry
C17_Witness ==
  /\ mainView.kind = "verses"
  /\ hash = ChapterFragment(mainView.book, mainView.chapter)
  /\ hash \notin InitialFragments
  /\ historyLength = 1


\* C18: every key of bookCache is the id of an index entry, and the value
\* stored under it is the content of that entry's file.
C18_CacheKeyMatchesContent ==
  \A k \in DOMAIN bookCache :
    \E i \in 1..Len(IndexFile) :
      /\ k = JsString(Num(IndexFile[i].id))
      /\ bookCache[k] = Files[IndexFile[i].file]
      /\ bookCache[k].id = IndexFile[i].id

\* C19: whenever no fetch is pending and the chapter list or the verse list
\* of a book b is the page shown, b is the current book and b's content is
\* cached under key b.
C19_ScreenMatchesState ==
  ( /\ pending = EmptyBag
    /\ mainClass \in {"chapters-page", "verses-page"}
    /\ mainView.kind \in {"chapters", "verses"} )
  => /\ currentBookId = Num(mainView.book)
     /\ JsString(Num(mainView.book)) \in DOMAIN bookCache
     /\ bookCache[JsString(Num(mainView.book))].id = mainView.book

\* C20: when the fetch of book x fails while the verse list of a chapter of
\* another, cached book y is the current view, the view stays
\* VerseList(y,n).
C20_StaleFailureKeepsView ==
  [][ \A p \in BagToSet(pending) :
        ( /\ \E y \in BookIds, n \in ChapterNumbers :
               /\ InVerseList(y, n)
               /\ y # Files[p.file].id
               /\ JsString(Num(y)) \in DOMAIN bookCache
               /\ bookCache[JsString(Num(y))] = Files[findMeta(IndexFile, Num(y)).file]
          /\ FetchRejected(p) )
        => UNCHANGED <<mainClass, mainView, currentBookId, currentChapter>>
    ]_vars

====
